---- MODULE Spec2Model ----
(***************************************************************************)
(* The ecommerce_data_pipeline DAG of dags/eccomerce_pipeline_dag.py:      *)
(* eight tasks chained linearly, run by the orchestrator with retries = 2, *)
(* over a warehouse with raw, silver and gold tables.                      *)
(*                                                                         *)
(* Tables are sequences of rows (bags: a row may occur more than once).    *)
(* A nullable column holds Null (<<>>) or Val(v) (<<v>>).  Character       *)
(* strings are sequences of one-character strings, so that TRIM, UPPER,    *)
(* LOWER and INITCAP are computed and not assumed.  Prices and amounts are *)
(* exact decimals counted in thousandths (1000 is 1.000).                  *)
(***************************************************************************)
EXTENDS Integers, Sequences, FiniteSets, TLC

VARIABLES
    raw,        \* [customers, products, sales]: the ecommerce_db.raw tables
    silver,     \* [customers_clean, products_clean, sales_enriched]
    gold,       \* [sales_by_country, top_products, client_activity]
    gold0,      \* the gold tables as they were when the run started
    taskState,  \* task id -> state of its task instance in this run
    tries,      \* task id -> attempts started so far
    pc,         \* task id -> steps of the running attempt already done
    runState,   \* "running", "success" or "failed"
    dq,         \* what the last attempt of data_quality_check executed
    scratch,    \* os.listdir(/tmp/ecommerce_data)
    ds,         \* context["ds"], the execution date
    bucket,     \* the S3 keys written, key -> local file name
    uploaded,   \* the last return value of upload_to_s3
    metrics,    \* what send_metrics_notification logged last
    lastOp      \* the operation applied by the last step

vars == <<raw, silver, gold, gold0, taskState, tries, pc, runState, dq,
          scratch, ds, bucket, uploaded, metrics, lastOp>>

----------------------------------------------------------------------------
(* SQL values *)

Null == <<>>
Val(v) == <<v>>
IsNull(x) == x = Null

\* s.k = c.k of a join or a WHERE: never true when either side is NULL
SqlEq(x, y) == ~IsNull(x) /\ ~IsNull(y) /\ x = y

LowerChars == <<"a", "b">>
UpperChars == <<"A", "B">>
Space == " "

IndexIn(c, chars) == CHOOSE i \in DOMAIN chars : chars[i] = c

UpperChar(c) ==
    IF \E i \in DOMAIN LowerChars : LowerChars[i] = c
    THEN UpperChars[IndexIn(c, LowerChars)] ELSE c

LowerChar(c) ==
    IF \E i \in DOMAIN UpperChars : UpperChars[i] = c
    THEN LowerChars[IndexIn(c, UpperChars)] ELSE c

IsLetter(c) ==
    \/ \E i \in DOMAIN LowerChars : LowerChars[i] = c
    \/ \E i \in DOMAIN UpperChars : UpperChars[i] = c

UPPER(s) == [i \in DOMAIN s |-> UpperChar(s[i])]
LOWER(s) == [i \in DOMAIN s |-> LowerChar(s[i])]

\* first letter of every word in upper case, the others in lower case
INITCAP(s) ==
    [i \in DOMAIN s |->
        IF i = 1 \/ ~IsLetter(s[i - 1]) THEN UpperChar(s[i]) ELSE LowerChar(s[i])]

RECURSIVE LTrim(_)
LTrim(s) == IF s # <<>> /\ Head(s) = Space THEN LTrim(Tail(s)) ELSE s

RECURSIVE RTrim(_)
RTrim(s) ==
    IF s # <<>> /\ s[Len(s)] = Space THEN RTrim(SubSeq(s, 1, Len(s) - 1)) ELSE s

TRIM(s) == RTrim(LTrim(s))

\* ROUND(price, 2) on thousandths: to the nearest hundredth, half away from 0
ROUND2(p) ==
    IF p >= 0 THEN ((p + 5) \div 10) * 10
    ELSE -(((-p + 5) \div 10) * 10)

----------------------------------------------------------------------------
(* sequences as tables *)

Range(t) == {t[i] : i \in DOMAIN t}

\* SELECT DISTINCT: one row of each value, in order of first occurrence
RECURSIVE Distinct(_)
Distinct(t) ==
    IF t = <<>> THEN <<>>
    ELSE LET rest == Distinct(SubSeq(t, 1, Len(t) - 1))
             last == t[Len(t)]
         IN  IF last \in Range(rest) THEN rest ELSE Append(rest, last)

RECURSIVE Concat(_)
Concat(ss) == IF ss = <<>> THEN <<>> ELSE Head(ss) \o Concat(Tail(ss))

\* SUM over a sequence of numbers
RECURSIVE SumSeq(_)
SumSeq(ns) == IF ns = <<>> THEN 0 ELSE Head(ns) + SumSeq(Tail(ns))

\* the number of rows of t equal to r
CountOf(t, r) == Cardinality({i \in DOMAIN t : t[i] = r})

\* the same rows with the same multiplicities, whatever the order
SameRows(t, u) ==
    /\ Range(t) = Range(u)
    /\ \A r \in Range(t) : CountOf(t, r) = CountOf(u, r)

----------------------------------------------------------------------------
(* transform_to_silver: the three CREATE OR REPLACE TABLE ... AS SELECT *)

\* FROM raw.customers WHERE customer_id IS NOT NULL AND email IS NOT NULL
CustomersKept(r) == ~IsNull(r.customer_id) /\ ~IsNull(r.email)

CustomersCleanRow(r) ==
    [customer_id |-> r.customer_id,
     name        |-> INITCAP(TRIM(r.name)),
     country     |-> UPPER(TRIM(r.country)),
     email       |-> IF IsNull(r.email) THEN Null
                     ELSE Val(LOWER(TRIM(r.email[1])))]

customers_clean(rawCustomers) ==
    LET kept == SelectSeq(rawCustomers, CustomersKept)
    IN  Distinct([i \in DOMAIN kept |-> CustomersCleanRow(kept[i])])

\* FROM raw.products WHERE product_id IS NOT NULL AND price > 0
ProductsKept(r) == ~IsNull(r.product_id) /\ r.price > 0

ProductsCleanRow(r) ==
    [product_id |-> r.product_id,
     name       |-> INITCAP(TRIM(r.name)),
     category   |-> INITCAP(TRIM(r.category)),
     price      |-> ROUND2(r.price)]

products_clean(rawProducts) ==
    LET kept == SelectSeq(rawProducts, ProductsKept)
    IN  Distinct([i \in DOMAIN kept |-> ProductsCleanRow(kept[i])])

EnrichedRow(s, c, p) ==
    [sale_id       |-> s.sale_id,
     sale_date     |-> s.sale_date,
     customer_id   |-> c.customer_id,
     customer_name |-> c.name,
     country       |-> c.country,
     product_id    |-> p.product_id,
     product_name  |-> p.name,
     category      |-> p.category,
     quantity      |-> s.quantity,
     total_amount  |-> s.quantity * p.price]

\* raw.sales s JOIN customers_clean c ON s.customer_id = c.customer_id
\*             JOIN products_clean p ON s.product_id = p.product_id
\* WHERE s.sale_id IS NOT NULL
sales_enriched(rawSales, cc, pcl) ==
    Concat([i \in DOMAIN rawSales |->
        Concat([j \in DOMAIN cc |->
            Concat([k \in DOMAIN pcl |->
                IF /\ SqlEq(rawSales[i].customer_id, cc[j].customer_id)
                   /\ SqlEq(rawSales[i].product_id, pcl[k].product_id)
                   /\ ~IsNull(rawSales[i].sale_id)
                THEN <<EnrichedRow(rawSales[i], cc[j], pcl[k])>>
                ELSE <<>>])])])

\* the script with INSERT INTO sales_enriched in place of CREATE OR REPLACE
SilverStatementAppend(n, rw, sv) ==
    CASE n = 1 -> [sv EXCEPT !.customers_clean = customers_clean(rw.customers)]
      [] n = 2 -> [sv EXCEPT !.products_clean = products_clean(rw.products)]
      [] n = 3 -> [sv EXCEPT !.sales_enriched = @ \o
                       sales_enriched(rw.sales, sv.customers_clean, sv.products_clean)]

\* statement n of transform_to_silver, run on the tables as they are now
SilverStatement(n, rw, sv) ==
    CASE n = 1 -> [sv EXCEPT !.customers_clean = customers_clean(rw.customers)]
      [] n = 2 -> [sv EXCEPT !.products_clean = products_clean(rw.products)]
      [] n = 3 -> [sv EXCEPT !.sales_enriched =
                       sales_enriched(rw.sales, sv.customers_clean, sv.products_clean)]

\* the first n statements of transform_to_silver, in order
RECURSIVE SilverStatements(_, _, _)
SilverStatements(n, rw, sv) ==
    IF n = 0 THEN sv
    ELSE SilverStatement(n, rw, SilverStatements(n - 1, rw, sv))

----------------------------------------------------------------------------
(* create_gold_analytics: the three CREATE OR REPLACE TABLE ... AS SELECT *)

\* sales_enriched s JOIN t ON s.<key> = t.<key>: the pairs [s, d]
JoinCustomers(se, cc) ==
    Concat([i \in DOMAIN se |->
        Concat([j \in DOMAIN cc |->
            IF SqlEq(se[i].customer_id, cc[j].customer_id)
            THEN <<[s |-> se[i], d |-> cc[j]]>> ELSE <<>>])])

JoinProducts(se, pcl) ==
    Concat([i \in DOMAIN se |->
        Concat([j \in DOMAIN pcl |->
            IF SqlEq(se[i].product_id, pcl[j].product_id)
            THEN <<[s |-> se[i], d |-> pcl[j]]>> ELSE <<>>])])

\* the members of a group, and a column of the sales side of them
AmountsOf(rows) == [i \in DOMAIN rows |-> rows[i].s.total_amount]
QuantitiesOf(rows) == [i \in DOMAIN rows |-> rows[i].s.quantity]

\* MAX over a non-empty sequence of numbers
MaxOf(ns) == CHOOSE m \in Range(ns) : \A n \in Range(ns) : n <= m

sales_by_country(se, cc) ==
    LET j == JoinCustomers(se, cc)
        keys == Distinct([i \in DOMAIN j |-> j[i].d.country])
        Group(k) == SelectSeq(j, LAMBDA x : x.d.country = k)
    IN  [g \in DOMAIN keys |->
            [country             |-> keys[g],
             total_sales         |-> SumSeq(AmountsOf(Group(keys[g]))),
             number_of_sales     |->
                 Cardinality({x.s.sale_id : x \in Range(Group(keys[g]))} \ {Null}),
             number_of_customers |->
                 Cardinality({x.d.customer_id : x \in Range(Group(keys[g]))} \ {Null})]]

\* ORDER BY by DESC: the rows taken greatest first, ties in table order
RECURSIVE OrderByRevenueDesc(_)
OrderByRevenueDesc(t) ==
    IF t = <<>> THEN <<>>
    ELSE LET i == CHOOSE i \in DOMAIN t :
                    /\ \A k \in DOMAIN t : t[k].total_revenue <= t[i].total_revenue
                    /\ \A k \in 1..(i - 1) : t[k].total_revenue < t[i].total_revenue
         IN  <<t[i]>> \o OrderByRevenueDesc(SubSeq(t, 1, i - 1) \o SubSeq(t, i + 1, Len(t)))

top_products(se, pcl) ==
    LET j == JoinProducts(se, pcl)
        keys == Distinct([i \in DOMAIN j |-> <<j[i].d.name, j[i].d.category>>])
        Group(k) == SelectSeq(j, LAMBDA x : <<x.d.name, x.d.category>> = k)
    IN  OrderByRevenueDesc([g \in DOMAIN keys |->
            [name                |-> keys[g][1],
             category            |-> keys[g][2],
             total_quantity_sold |-> SumSeq(QuantitiesOf(Group(keys[g]))),
             total_revenue       |-> SumSeq(AmountsOf(Group(keys[g])))]])

client_activity(se, cc) ==
    LET j == JoinCustomers(se, cc)
        keys == Distinct([i \in DOMAIN j |->
                    <<j[i].d.customer_id, j[i].d.name, j[i].d.country>>])
        Group(k) == SelectSeq(j,
                        LAMBDA x : <<x.d.customer_id, x.d.name, x.d.country>> = k)
    IN  [g \in DOMAIN keys |->
            [customer_id         |-> keys[g][1],
             name                |-> keys[g][2],
             country             |-> keys[g][3],
             number_of_purchases |->
                 Len(SelectSeq(Group(keys[g]), LAMBDA x : ~IsNull(x.s.sale_id))),
             total_spent         |-> SumSeq(AmountsOf(Group(keys[g]))),
             last_purchase_date  |->
                 MaxOf([i \in DOMAIN Group(keys[g]) |-> Group(keys[g])[i].s.sale_date])]]

\* the script with INSERT INTO sales_by_country in place of CREATE OR REPLACE
GoldStatementAppend(n, sv, gd) ==
    CASE n = 1 -> [gd EXCEPT !.sales_by_country = @ \o
                       sales_by_country(sv.sales_enriched, sv.customers_clean)]
      [] n = 2 -> [gd EXCEPT !.top_products =
                       top_products(sv.sales_enriched, sv.products_clean)]
      [] n = 3 -> [gd EXCEPT !.client_activity =
                       client_activity(sv.sales_enriched, sv.customers_clean)]

\* statement n of create_gold_analytics, run on the tables as they are now
GoldStatement(n, sv, gd) ==
    CASE n = 1 -> [gd EXCEPT !.sales_by_country =
                       sales_by_country(sv.sales_enriched, sv.customers_clean)]
      [] n = 2 -> [gd EXCEPT !.top_products =
                       top_products(sv.sales_enriched, sv.products_clean)]
      [] n = 3 -> [gd EXCEPT !.client_activity =
                       client_activity(sv.sales_enriched, sv.customers_clean)]

RECURSIVE GoldStatements(_, _, _)
GoldStatements(n, sv, gd) ==
    IF n = 0 THEN gd
    ELSE GoldStatement(n, sv, GoldStatements(n - 1, sv, gd))

----------------------------------------------------------------------------
(* data_quality_check *)

\* silver.customers_clean WHERE customer_id IS NULL OR email IS NULL
customers_null_check(sv) ==
    Len(SelectSeq(sv.customers_clean,
                  LAMBDA r : IsNull(r.customer_id) \/ IsNull(r.email)))

\* silver.products_clean WHERE price <= 0
products_price_check(sv) ==
    Len(SelectSeq(sv.products_clean, LAMBDA r : r.price <= 0))

\* raw.sales s LEFT JOIN raw.customers c ON s.customer_id = c.customer_id:
\* a sale with every customer row it matches; with a NULL customer when it
\* matches none
LeftJoinCustomers(sales, customers) ==
    Concat([i \in DOMAIN sales |->
        LET m == SelectSeq(customers,
                     LAMBDA c : SqlEq(sales[i].customer_id, c.customer_id))
        IN  IF m = <<>> THEN <<[s |-> sales[i], c_customer_id |-> Null]>>
            ELSE [k \in DOMAIN m |->
                     [s |-> sales[i], c_customer_id |-> m[k].customer_id]]])

\* the count over an inner join, which has no row to count
sales_orphan_check_inner_join(rw) ==
    Len(SelectSeq(JoinCustomers(rw.sales, rw.customers),
                  LAMBDA x : IsNull(x.d.customer_id)))

\* ... WHERE c.customer_id IS NULL
sales_orphan_check(rw) ==
    Len(SelectSeq(LeftJoinCustomers(rw.sales, rw.customers),
                  LAMBDA x : IsNull(x.c_customer_id)))

\* the checks dictionary, in its insertion order
CheckNames == <<"customers_null_check", "products_price_check", "sales_orphan_check">>

\* cursor.execute(query); result = cursor.fetchone()[0]
CheckResult(name, rw, sv) ==
    CASE name = "customers_null_check" -> customers_null_check(sv)
      [] name = "products_price_check" -> products_price_check(sv)
      [] name = "sales_orphan_check"   -> sales_orphan_check(rw)

NoDq == [executed |-> <<>>, issues |-> <<>>, raised |-> FALSE]

\* the loop breaking off at the first check that finds issues
RECURSIVE CheckLoopFailFast(_, _, _)
CheckLoopFailFast(n, rw, sv) ==
    IF n = 0 THEN NoDq
    ELSE LET before == CheckLoopFailFast(n - 1, rw, sv)
             name   == CheckNames[n]
             result == CheckResult(name, rw, sv)
             entry  == [check |-> name, result |-> result]
         IN  IF before.issues # <<>> THEN before
             ELSE [executed |-> Append(before.executed, entry),
                   issues   |-> IF result > 0 THEN <<entry>> ELSE <<>>,
                   raised   |-> FALSE]

\* the for loop over the first n checks: every check is executed, and a
\* result > 0 appends "<check_name>: <result> issues found" to issues
RECURSIVE CheckLoop(_, _, _)
CheckLoop(n, rw, sv) ==
    IF n = 0 THEN NoDq
    ELSE LET before == CheckLoop(n - 1, rw, sv)
             name   == CheckNames[n]
             result == CheckResult(name, rw, sv)
             entry  == [check |-> name, result |-> result]
         IN  [executed |-> Append(before.executed, entry),
              issues   |-> IF result > 0 THEN Append(before.issues, entry)
                           ELSE before.issues,
              raised   |-> FALSE]

\* the function logging the issues and returning
data_quality_check_logs_only(rw, sv) == CheckLoop(Len(CheckNames), rw, sv)

\* the loop, then: if issues: raise ValueError(", ".join(issues))
data_quality_check(rw, sv) ==
    LET looped == CheckLoop(Len(CheckNames), rw, sv)
    IN  [looped EXCEPT !.raised = (looped.issues # <<>>)]

----------------------------------------------------------------------------
(* send_metrics_notification *)

NoMetrics == [logged |-> FALSE, countries_count |-> 0, total_revenue |-> 0,
              products_count |-> 0]

\* COUNT(*), SUM(total_sales) or 0, COUNT(*): SUM over no row is NULL
send_metrics_notification(gd) ==
    [logged          |-> TRUE,
     countries_count |-> Len(gd.sales_by_country),
     total_revenue   |->
         SumSeq([i \in DOMAIN gd.sales_by_country |-> gd.sales_by_country[i].total_sales]),
     products_count  |-> Len(gd.top_products)]

----------------------------------------------------------------------------
(* generate_fake_data and upload_to_s3.  A file name is a sequence of      *)
(* tokens; "x in filename" is the search of x as a run of tokens.          *)

Contains(sub, name) ==
    \E i \in 1..(Len(name) - Len(sub) + 1) : SubSeq(name, i, i + Len(sub) - 1) = sub

\* the three files generate_fake_data writes for an execution date
GeneratedFiles(date) ==
    << <<"customers", "_">> \o date \o <<".csv">>,
       <<"products", "_">> \o date \o <<".csv">>,
       <<"sales", "_">> \o date \o <<".json">> >>

\* a directory listing after the files have been written (a file that is
\* there already is overwritten)
RECURSIVE WriteFiles(_, _)
WriteFiles(listing, files) ==
    IF files = <<>> THEN listing
    ELSE WriteFiles(IF Head(files) \in Range(listing) THEN listing
                    ELSE Append(listing, Head(files)), Tail(files))

\* the if / elif chain: the destination prefix, or "" for the else branch
KeyPrefix(filename) ==
    IF Contains(<<"customers">>, filename) THEN "raw/customers/"
    ELSE IF Contains(<<"products">>, filename) THEN "raw/products/"
    ELSE IF Contains(<<"sales">>, filename) THEN "raw/sales/"
    ELSE ""

\* f"raw/<kind>/{filename}"
S3Key(filename) == [prefix |-> KeyPrefix(filename), filename |-> filename]

\* the loop body without the test of the execution date
UploadsAnyDate(filename, date) == KeyPrefix(filename) # ""

\* whether the loop body uploads this file
Uploads(filename, date) == Contains(date, filename) /\ KeyPrefix(filename) # ""

\* one iteration of the loop on filename: [bucket, uploaded] after it
UploadOne(filename, date, st) ==
    IF Uploads(filename, date)
    THEN [bucket   |-> st.bucket \cup {[key |-> S3Key(filename), body |-> filename]},
          uploaded |-> Append(st.uploaded, S3Key(filename))]
    ELSE st

\* the first n iterations of the loop over os.listdir(data_dir)
RECURSIVE UploadLoop(_, _, _, _)
UploadLoop(n, listing, date, bkt) ==
    IF n = 0 THEN [bucket |-> bkt, uploaded |-> <<>>]
    ELSE UploadOne(listing[n], date, UploadLoop(n - 1, listing, date, bkt))

----------------------------------------------------------------------------
(* the DAG: default_args, the task definitions and the dependencies *)

Retries == 2

TaskIds == <<"generate_fake_data", "upload_to_s3", "wait_for_snowpipe",
             "refresh_bronze_layer", "transform_to_silver", "data_quality_checks",
             "create_gold_analytics", "send_completion_metrics">>

Tasks == Range(TaskIds)

\* a >> b >> c: an edge from each task to the next of the chain
Chain(ts) == {<<ts[i], ts[i + 1]>> : i \in 1..(Len(ts) - 1)}

\* the second chain written from transform_to_silver on
DepsUnchained ==
    Chain(<<"generate_fake_data", "upload_to_s3", "wait_for_snowpipe",
            "refresh_bronze_layer">>)
    \cup Chain(<<"transform_to_silver", "data_quality_checks",
                 "create_gold_analytics", "send_completion_metrics">>)

Deps ==
    Chain(<<"generate_fake_data", "upload_to_s3", "wait_for_snowpipe",
            "refresh_bronze_layer">>)
    \cup Chain(<<"refresh_bronze_layer", "transform_to_silver", "data_quality_checks",
                 "create_gold_analytics", "send_completion_metrics">>)

Upstream(t) == {u \in Tasks : <<u, t>> \in Deps}
Leaves == {t \in Tasks : ~\E d \in Tasks : <<t, d>> \in Deps}

\* the statements of the sql of a SnowflakeOperator
SqlTasks == {"refresh_bronze_layer", "transform_to_silver", "create_gold_analytics"}
Statements(t) == 1..3

\* the steps an attempt of t takes before it returns
NumSteps(t) ==
    IF t \in SqlTasks THEN Cardinality(Statements(t))
    ELSE IF t = "upload_to_s3" THEN Len(scratch)
    ELSE 1

Running(t) == runState = "running" /\ taskState[t] = "running"

AttemptUnchanged == UNCHANGED <<taskState, tries, runState, gold0, ds, lastOp>>

\* the scheduler starts a task whose upstream tasks have all succeeded
\* (trigger rule all_success): a first attempt, or a retry
Start(t) ==
    /\ runState = "running"
    /\ taskState[t] \in {"none", "up_for_retry"}
    /\ \A u \in Upstream(t) : taskState[u] = "success"
    /\ taskState' = [taskState EXCEPT ![t] = "running"]
    /\ tries' = [tries EXCEPT ![t] = @ + 1]
    /\ pc' = [pc EXCEPT ![t] = 0]
    /\ dq' = IF t = "data_quality_checks" THEN NoDq ELSE dq
    /\ uploaded' = IF t = "upload_to_s3" THEN <<>> ELSE uploaded
    /\ UNCHANGED <<raw, silver, gold, gold0, runState, scratch, ds, bucket,
                   metrics, lastOp>>

Advance(t) == pc' = [pc EXCEPT ![t] = @ + 1]

GenerateFakeData ==
    LET t == "generate_fake_data" IN
    /\ Running(t) /\ pc[t] < NumSteps(t)
    /\ scratch' = WriteFiles(scratch, GeneratedFiles(ds))
    /\ Advance(t)
    /\ AttemptUnchanged
    /\ UNCHANGED <<raw, silver, gold, dq, bucket, uploaded, metrics>>

\* one iteration of the loop of upload_to_s3
UploadToS3 ==
    LET t == "upload_to_s3"
        st == UploadOne(scratch[pc[t] + 1], ds, [bucket |-> bucket, uploaded |-> uploaded])
    IN
    /\ Running(t) /\ pc[t] < NumSteps(t)
    /\ bucket' = st.bucket
    /\ uploaded' = st.uploaded
    /\ Advance(t)
    /\ AttemptUnchanged
    /\ UNCHANGED <<raw, silver, gold, dq, scratch, metrics>>

\* the lambda logs and returns
WaitForSnowpipe ==
    LET t == "wait_for_snowpipe" IN
    /\ Running(t) /\ pc[t] < NumSteps(t)
    /\ Advance(t)
    /\ AttemptUnchanged
    /\ UNCHANGED <<raw, silver, gold, dq, scratch, bucket, uploaded, metrics>>

\* one SELECT COUNT(*) of refresh_bronze_layer
RefreshBronze ==
    LET t == "refresh_bronze_layer" IN
    /\ Running(t) /\ pc[t] < NumSteps(t)
    /\ Advance(t)
    /\ AttemptUnchanged
    /\ UNCHANGED <<raw, silver, gold, dq, scratch, bucket, uploaded, metrics>>

\* one statement of transform_to_silver
TransformToSilver ==
    LET t == "transform_to_silver" IN
    /\ Running(t) /\ pc[t] < NumSteps(t)
    /\ silver' = SilverStatement(pc[t] + 1, raw, silver)
    /\ Advance(t)
    /\ AttemptUnchanged
    /\ UNCHANGED <<raw, gold, dq, scratch, bucket, uploaded, metrics>>

\* the three queries of data_quality_check; the raise is in Succeed and Fail
DataQualityChecks ==
    LET t == "data_quality_checks" IN
    /\ Running(t) /\ pc[t] < NumSteps(t)
    /\ dq' = data_quality_check(raw, silver)
    /\ Advance(t)
    /\ AttemptUnchanged
    /\ UNCHANGED <<raw, silver, gold, scratch, bucket, uploaded, metrics>>

\* one statement of create_gold_analytics
CreateGoldAnalytics ==
    LET t == "create_gold_analytics" IN
    /\ Running(t) /\ pc[t] < NumSteps(t)
    /\ gold' = GoldStatement(pc[t] + 1, silver, gold)
    /\ Advance(t)
    /\ AttemptUnchanged
    /\ UNCHANGED <<raw, silver, dq, scratch, bucket, uploaded, metrics>>

SendCompletionMetrics ==
    LET t == "send_completion_metrics" IN
    /\ Running(t) /\ pc[t] < NumSteps(t)
    /\ metrics' = send_metrics_notification(gold)
    /\ Advance(t)
    /\ AttemptUnchanged
    /\ UNCHANGED <<raw, silver, gold, dq, scratch, bucket, uploaded>>

\* whether the callable of t, having done all its steps, raises
Raises(t) == t = "data_quality_checks" /\ dq.raised

\* the callable returns: the task instance succeeds
Succeed(t) ==
    /\ Running(t) /\ pc[t] = NumSteps(t)
    /\ ~Raises(t)
    /\ taskState' = [taskState EXCEPT ![t] = "success"]
    /\ UNCHANGED <<raw, silver, gold, gold0, tries, pc, runState, dq, scratch, ds,
                   bucket, uploaded, metrics, lastOp>>

\* one retry more than default_args allows
AfterFailureExtraRetry(t) == IF tries[t] <= Retries + 1 THEN "up_for_retry" ELSE "failed"

\* the state of a task instance whose attempt raised
AfterFailure(t) == IF tries[t] <= Retries THEN "up_for_retry" ELSE "failed"

\* the attempt raises: the ValueError of the gate, or a failure of the disk,
\* the network, the warehouse connection or the worker at any step
Fail(t) ==
    /\ Running(t)
    /\ taskState' = [taskState EXCEPT ![t] = AfterFailure(t)]
    /\ UNCHANGED <<raw, silver, gold, gold0, tries, pc, runState, dq, scratch, ds,
                   bucket, uploaded, metrics, lastOp>>

\* a task below a failed task is never run
UpstreamFailed(t) ==
    /\ runState = "running"
    /\ taskState[t] = "none"
    /\ \E u \in Upstream(t) : taskState[u] \in {"failed", "upstream_failed"}
    /\ taskState' = [taskState EXCEPT ![t] = "upstream_failed"]
    /\ UNCHANGED <<raw, silver, gold, gold0, tries, pc, runState, dq, scratch, ds,
                   bucket, uploaded, metrics, lastOp>>

\* the run ends when no task is left to run: success when every leaf succeeded
FinishRun ==
    /\ runState = "running"
    /\ \A t \in Tasks : taskState[t] \in {"success", "failed", "upstream_failed"}
    /\ runState' = IF \A t \in Leaves : taskState[t] = "success"
                   THEN "success" ELSE "failed"
    /\ UNCHANGED <<raw, silver, gold, gold0, taskState, tries, pc, dq, scratch, ds,
                   bucket, uploaded, metrics, lastOp>>

----------------------------------------------------------------------------
(* the contents the tables and the scratch directory are drawn from *)

MaxCustomers == 2
MaxProducts == 1
MaxSales == 2
MaxRepeat == 2
MaxFiles == 2

Customer(id, name, country, email) ==
    [customer_id |-> id, name |-> name, country |-> country, email |-> email]

\* rows 1 and 2 are the same customer once cleaned; row 3 shares its
\* customer_id and differs in the other columns
RawCustomerPool ==
    << Customer(Val(1), <<" ", "a", "b">>, <<"a", " ">>, Val(<<"A", "@", "b">>)),
       Customer(Val(1), <<"A", "B">>, <<"A">>, Val(<<"a", "@", "b", " ">>)),
       Customer(Val(1), <<"b">>, <<"b">>, Val(<<"b", "@", "a">>)),
       Customer(Val(2), <<"b", " ", "a">>, <<"b">>, Null),
       Customer(Null, <<"a">>, <<"a">>, Val(<<"a", "@", "a">>)) >>

Product(id, name, category, price) ==
    [product_id |-> id, name |-> name, category |-> category, price |-> price]

\* prices 2.000, 0.004, 1.005, -5.000 and 1.000
RawProductPool ==
    << Product(Val(1), <<"a">>, <<"b", " ", "a">>, 2000),
       Product(Val(1), <<"a">>, <<"b", " ", "a">>, 4),
       Product(Val(2), <<"b">>, <<"a">>, 1005),
       Product(Val(2), <<"b">>, <<"a">>, -5000),
       Product(Null, <<"a">>, <<"a">>, 1000) >>

Sale(id, customer, product, quantity, date) ==
    [sale_id |-> id, customer_id |-> customer, product_id |-> product,
     quantity |-> quantity, sale_date |-> date]

\* customer 3 is in no pool row: sale 3 references a nonexistent customer
RawSalePool ==
    << Sale(Val(1), Val(1), Val(1), 2, 1),
       Sale(Val(2), Val(2), Val(2), 1, 2),
       Sale(Val(3), Val(3), Val(1), 1, 1),
       Sale(Null, Val(1), Val(1), 1, 2),
       Sale(Val(4), Null, Val(1), 3, 1) >>

\* the tables of at most max rows of a pool, in the order of the pool (the
\* order of the rows of a table decides nothing)
TablesOf(pool, max) ==
    UNION {{[i \in 1..k |-> pool[idx[i]]] :
              idx \in {f \in [1..k -> DOMAIN pool] :
                          \A i \in 1..k, j \in 1..k : i < j => f[i] < f[j]}} :
           k \in 0..max}

RawInputs ==
    [customers : TablesOf(RawCustomerPool, MaxCustomers),
     products  : TablesOf(RawProductPool, MaxProducts),
     sales     : TablesOf(RawSalePool, MaxSales)]

\* the raw tables of the runs of the DAG: clean data, a sale of a nonexistent
\* customer, a price that rounds to 0.00, two customers sharing an id
RunInputs ==
    LET c == RawCustomerPool  p == RawProductPool  s == RawSalePool IN
    { [customers |-> <<c[1]>>, products |-> <<p[1]>>, sales |-> <<s[1]>>],
      [customers |-> <<c[1]>>, products |-> <<p[1]>>, sales |-> <<s[1], s[3]>>],
      [customers |-> <<c[1]>>, products |-> <<p[1], p[2]>>, sales |-> <<s[1]>>],
      [customers |-> <<c[1], c[3]>>, products |-> <<p[1]>>, sales |-> <<s[1]>>] }

EmptySilver == [customers_clean |-> <<>>, products_clean |-> <<>>, sales_enriched |-> <<>>]
EmptyGold == [sales_by_country |-> <<>>, top_products |-> <<>>, client_activity |-> <<>>]

\* tables left by an earlier run on other raw data
StaleSilver ==
    [customers_clean |-> << Customer(Val(2), <<"B">>, <<"B">>, Null) >>,
     products_clean  |-> << Product(Val(2), <<"B">>, <<"A">>, 0) >>,
     sales_enriched  |->
        << EnrichedRow(Sale(Val(2), Val(2), Val(2), 1, 2),
                       Customer(Val(2), <<"B">>, <<"B">>, Null),
                       Product(Val(2), <<"B">>, <<"A">>, 3000)) >>]

StaleGold ==
    [sales_by_country |-> << [country |-> <<"B">>, total_sales |-> 3000,
                              number_of_sales |-> 1, number_of_customers |-> 1] >>,
     top_products     |-> << [name |-> <<"B">>, category |-> <<"A">>,
                              total_quantity_sold |-> 1, total_revenue |-> 3000] >>,
     client_activity  |-> <<>>]

Date1 == <<"2024-01-01">>
Date2 == <<"2024-01-02">>

\* readme.txt has neither a date nor a kind; notes_<date1>.txt has a date
\* and no kind; the last has two kinds
FilePool ==
    { <<"customers", "_">> \o Date1 \o <<".csv">>,
      <<"sales", "_">> \o Date1 \o <<".json">>,
      <<"products", "_">> \o Date2 \o <<".csv">>,
      <<"readme", ".txt">>,
      <<"notes", "_">> \o Date1 \o <<".txt">>,
      <<"sales", "_", "customers", "_">> \o Date1 \o <<".csv">> }

\* the listings of at most max files, no file twice
ListingsOf(files, max) ==
    UNION {{f \in [1..k -> files] : \A i \in 1..k, j \in 1..k : i # j => f[i] # f[j]} :
           k \in 0..max}

NoOp == [op |-> "none", n |-> 0, fresh |-> FALSE]

----------------------------------------------------------------------------
(* a run of the DAG *)

Init ==
    /\ raw \in RunInputs
    /\ \E old \in {<<EmptySilver, EmptyGold>>, <<StaleSilver, StaleGold>>} :
          silver = old[1] /\ gold = old[2] /\ gold0 = old[2]
    /\ taskState = [t \in Tasks |-> "none"]
    /\ tries = [t \in Tasks |-> 0]
    /\ pc = [t \in Tasks |-> 0]
    /\ runState = "running"
    /\ dq = NoDq
    /\ scratch = << <<"readme", ".txt">> >>
    /\ ds = Date1
    /\ bucket = {}
    /\ uploaded = <<>>
    /\ metrics = NoMetrics
    /\ lastOp = NoOp

Next ==
    \/ \E t \in Tasks : Start(t)
    \/ GenerateFakeData
    \/ UploadToS3
    \/ WaitForSnowpipe
    \/ RefreshBronze
    \/ TransformToSilver
    \/ DataQualityChecks
    \/ CreateGoldAnalytics
    \/ SendCompletionMetrics
    \/ \E t \in Tasks : Succeed(t)
    \/ \E t \in Tasks : Fail(t)
    \/ \E t \in Tasks : UpstreamFailed(t)
    \/ FinishRun

Spec == Init /\ [][Next]_vars

----------------------------------------------------------------------------
(* the callables and the SQL scripts applied to any content of the tables *)

DagIdle ==
    /\ taskState = [t \in Tasks |-> "none"]
    /\ tries = [t \in Tasks |-> 0]
    /\ pc = [t \in Tasks |-> 0]
    /\ runState = "running"

InitSql ==
    /\ raw \in RawInputs
    /\ silver \in {EmptySilver, StaleSilver}
    /\ gold = StaleGold
    /\ gold0 = gold
    /\ DagIdle
    /\ dq = NoDq
    /\ scratch = <<>>
    /\ ds = Date1
    /\ bucket = {}
    /\ uploaded = <<>>
    /\ metrics = NoMetrics
    /\ lastOp = NoOp

\* the whole script of transform_to_silver, at most MaxRepeat times in a row
CallTransformToSilver ==
    /\ lastOp.op = "silver" => lastOp.n < MaxRepeat
    /\ silver' = SilverStatements(3, raw, silver)
    /\ lastOp' = [op |-> "silver",
                  n |-> IF lastOp.op = "silver" THEN lastOp.n + 1 ELSE 1,
                  fresh |-> TRUE]
    /\ UNCHANGED <<raw, gold, gold0, taskState, tries, pc, runState, dq, scratch,
                   ds, bucket, uploaded, metrics>>

\* data_quality_check on the tables as they are
CallDataQualityCheck ==
    /\ dq' = data_quality_check(raw, silver)
    /\ lastOp' = [lastOp EXCEPT !.op = "gate", !.n = 1]
    /\ UNCHANGED <<raw, silver, gold, gold0, taskState, tries, pc, runState,
                   scratch, ds, bucket, uploaded, metrics>>

\* the whole script of create_gold_analytics, on a Silver layer that
\* transform_to_silver has produced
CallCreateGoldAnalytics ==
    /\ lastOp.fresh
    /\ gold' = GoldStatements(3, silver, gold)
    /\ lastOp' = [lastOp EXCEPT !.op = "gold", !.n = 1]
    /\ UNCHANGED <<raw, silver, gold0, taskState, tries, pc, runState, dq, scratch,
                   ds, bucket, uploaded, metrics>>

NextSql ==
    \/ CallTransformToSilver
    \/ CallDataQualityCheck
    \/ CallCreateGoldAnalytics

SpecSql == InitSql /\ [][NextSql]_vars

\* transform_to_silver alone, executed again and again
SpecSilver == InitSql /\ [][CallTransformToSilver]_vars

----------------------------------------------------------------------------
(* generate_fake_data and upload_to_s3 on any scratch directory *)

InitUpload ==
    /\ raw = [customers |-> <<>>, products |-> <<>>, sales |-> <<>>]
    /\ silver = EmptySilver
    /\ gold = EmptyGold
    /\ gold0 = gold
    /\ DagIdle
    /\ dq = NoDq
    /\ scratch \in ListingsOf(FilePool, MaxFiles)
    /\ ds \in {Date1, Date2}
    /\ bucket = {}
    /\ uploaded = <<>>
    /\ metrics = NoMetrics
    /\ lastOp = NoOp

CallGenerateFakeData ==
    /\ lastOp.op = "none"
    /\ scratch' = WriteFiles(scratch, GeneratedFiles(ds))
    /\ lastOp' = [lastOp EXCEPT !.op = "generate", !.n = 1]
    /\ UNCHANGED <<raw, silver, gold, gold0, taskState, tries, pc, runState, dq,
                   ds, bucket, uploaded, metrics>>

\* the whole of upload_to_s3, once
CallUploadToS3 ==
    LET st == UploadLoop(Len(scratch), scratch, ds, bucket) IN
    /\ lastOp.op # "upload"
    /\ bucket' = st.bucket
    /\ uploaded' = st.uploaded
    /\ lastOp' = [lastOp EXCEPT !.op = "upload", !.n = 1]
    /\ UNCHANGED <<raw, silver, gold, gold0, taskState, tries, pc, runState, dq,
                   scratch, ds, metrics>>

NextUpload == CallGenerateFakeData \/ CallUploadToS3

SpecUpload == InitUpload /\ [][NextUpload]_vars

----------------------------------------------------------------------------
(* the properties *)

Gate == "data_quality_checks"
GoldTask == "create_gold_analytics"
MetricsTask == "send_completion_metrics"

\* the last attempt of the gate fetched a count greater than 0
GateFoundIssues == \E i \in DOMAIN dq.executed : dq.executed[i].result > 0

\* C1: when the last attempt of data_quality_checks found a check count
\* greater than 0, create_gold_analytics has not been executed and is not
\* executing, and the Gold tables are as they were before the run, whatever
\* the number of attempts of the gate.
C1_FailedGateBlocksGold ==
    GateFoundIssues =>
        /\ tries[GoldTask] = 0
        /\ taskState[GoldTask] \in {"none", "upstream_failed"}
        /\ gold = gold0

\* the gate has failed its third attempt on issues, the run has ended, and
\* the Gold tables of before the run still hold rows
C1_Witness ==
    /\ GateFoundIssues
    /\ taskState[Gate] = "failed"
    /\ tries[Gate] = Retries + 1
    /\ taskState[GoldTask] = "upstream_failed"
    /\ runState = "failed"
    /\ gold0 = StaleGold

ClaimedOrder == <<"generate_fake_data", "upload_to_s3", "wait_for_snowpipe",
                  "refresh_bronze_layer", "transform_to_silver",
                  "data_quality_checks", "create_gold_analytics",
                  "send_completion_metrics">>

\* C2: in a run, a task has started only if the task before it in the order
\* generate_fake_data, upload_to_s3, wait_for_snowpipe, refresh_bronze_layer,
\* transform_to_silver, data_quality_checks, create_gold_analytics,
\* send_completion_metrics has succeeded; at most one task is executing; and
\* once create_gold_analytics has started, Silver holds the result of the
\* complete three-statement transform of the raw tables.
C2_StrictOrder ==
    /\ \A i \in 2..Len(ClaimedOrder) :
          tries[ClaimedOrder[i]] > 0 => taskState[ClaimedOrder[i - 1]] = "success"
    /\ Cardinality({t \in Tasks : taskState[t] = "running"}) <= 1
    /\ tries[GoldTask] > 0 => silver = SilverStatements(3, raw, EmptySilver)

\* all eight tasks have run and the run has succeeded
C2_Witness ==
    /\ runState = "success"
    /\ \A t \in Tasks : taskState[t] = "success"
    /\ metrics.logged

\* C3: data_quality_check executes the three checks customers_null_check,
\* products_price_check and sales_orphan_check whatever the earlier ones
\* found; it raises exactly when a count is greater than 0; and the message
\* names, once and with its count, each check whose count is greater than 0,
\* and no other check.
C3_GateAggregates ==
    dq.executed # <<>> =>
        /\ [i \in DOMAIN dq.executed |-> dq.executed[i].check] =
              <<"customers_null_check", "products_price_check", "sales_orphan_check">>
        /\ dq.raised <=> GateFoundIssues
        /\ \A i \in DOMAIN dq.executed :
              dq.executed[i].result > 0 <=> dq.executed[i] \in Range(dq.issues)
        /\ Len(dq.issues) = Cardinality({i \in DOMAIN dq.executed : dq.executed[i].result > 0})

\* the gate has run on tables where all three checks find rows
C3_Witness ==
    /\ lastOp.op = "gate"
    /\ dq.raised
    /\ Len(dq.issues) = 3

\* the sale s references no row of raw.customers
OrphanSale(s) == \A c \in Range(raw.customers) : ~SqlEq(s.customer_id, c.customer_id)

OrphanSales == {i \in DOMAIN raw.sales : OrphanSale(raw.sales[i])}

\* the row r of sales_enriched comes from the raw sale s
Carries(r, s) ==
    /\ r.sale_id = s.sale_id
    /\ r.sale_date = s.sale_date
    /\ r.quantity = s.quantity
    /\ r.customer_id = s.customer_id
    /\ r.product_id = s.product_id

\* C4: for every raw sale whose customer_id matches no row of raw.customers,
\* after transform_to_silver no row of sales_enriched carries the sale, and
\* the sales_orphan_check count of data_quality_check counts it: the count is
\* at least the number of such sales, and the gate raises when there is one.
C4_OrphanExcludedAndCounted ==
    /\ lastOp.fresh =>
          \A i \in OrphanSales :
             \A r \in Range(silver.sales_enriched) : ~Carries(r, raw.sales[i])
    /\ dq.executed # <<>> =>
          /\ dq.executed[3].check = "sales_orphan_check"
          /\ dq.executed[3].result >= Cardinality(OrphanSales)
          /\ OrphanSales # {} => dq.raised

\* the transform and the gate have run on raw tables with customers and with
\* a sale of a customer_id that is in none of them
C4_Witness ==
    /\ lastOp.fresh
    /\ lastOp.op = "gate"
    /\ raw.customers # <<>>
    /\ \E i \in OrphanSales : ~IsNull(raw.sales[i].customer_id)
    /\ dq.raised

\* the countries of the rows of sales_enriched and of sales_by_country
Countries ==
    {r.country : r \in Range(silver.sales_enriched)}
    \cup {g.country : g \in Range(gold.sales_by_country)}

EnrichedTotal(k) ==
    LET rows == SelectSeq(silver.sales_enriched, LAMBDA r : r.country = k)
    IN  SumSeq([i \in DOMAIN rows |-> rows[i].total_amount])

\* C5: after create_gold_analytics, for every country, sales_by_country has
\* one row of that country, and its total_sales is the sum of total_amount
\* over the rows of sales_enriched of that country.
C5_TotalSalesIsSum ==
    lastOp.op = "gold" =>
        \A k \in Countries :
            /\ Cardinality({i \in DOMAIN gold.sales_by_country :
                               gold.sales_by_country[i].country = k}) = 1
            /\ \A g \in Range(gold.sales_by_country) :
                  g.country = k => g.total_sales = EnrichedTotal(k)

\* C6: after transform_to_silver every row of products_clean has price > 0,
\* and products_price_check counts 0 when the gate runs right after it.
C6_CleanPricePositive ==
    lastOp.fresh =>
        /\ \A r \in Range(silver.products_clean) : r.price > 0
        /\ lastOp.op = "gate" => dq.executed[2].result = 0

\* the raw sale s has a sale_id, a customer in customers_clean and a product
\* in products_clean
ValidSale(s) ==
    /\ ~IsNull(s.sale_id)
    /\ \E c \in Range(silver.customers_clean) : SqlEq(s.customer_id, c.customer_id)
    /\ \E q \in Range(silver.products_clean) : SqlEq(s.product_id, q.product_id)

RowsCarrying(s) == {i \in DOMAIN silver.sales_enriched : Carries(silver.sales_enriched[i], s)}

\* C7: after transform_to_silver, sales_enriched holds one row for each valid
\* raw sale (as many rows as raw.sales holds copies of it) and no row for any
\* other raw sale.
C7_OneRowPerValidSale ==
    lastOp.fresh =>
        \A i \in DOMAIN raw.sales :
            Cardinality(RowsCarrying(raw.sales[i])) =
                IF ValidSale(raw.sales[i]) THEN CountOf(raw.sales, raw.sales[i]) ELSE 0

SilverTables == {"customers_clean", "products_clean", "sales_enriched"}

\* C8: an execution of transform_to_silver leaves customers_clean,
\* products_clean and sales_enriched with the rows it leaves on empty Silver
\* tables, whatever they held before; and an execution that follows another
\* one, the raw tables unchanged, leaves each with the rows the first left.
C8_SilverIdempotent ==
    [][lastOp'.op = "silver" =>
         LET onEmpty == SilverStatements(3, raw, EmptySilver) IN
         \A tb \in SilverTables :
            /\ SameRows(silver'[tb], onEmpty[tb])
            /\ lastOp.op = "silver" => SameRows(silver'[tb], silver[tb])]_vars

\* the transform has run twice in a row, on tables an earlier run had filled,
\* and has enriched a sale
C8_Witness ==
    /\ lastOp.op = "silver"
    /\ lastOp.n = 2
    /\ silver.sales_enriched # <<>>
    /\ silver # StaleSilver

Kinds == {"customers", "products", "sales"}

\* the files of the scratch directory the claim says are uploaded
ToUpload ==
    {f \in Range(scratch) : Contains(ds, f) /\ \E k \in Kinds : Contains(<<k>>, f)}

\* C9: upload_to_s3 writes, for each file of the scratch directory whose name
\* contains the execution date and one of customers, products and sales, the
\* key raw/<kind>/<filename> for a kind the name contains, with the file as
\* its content; it writes nothing else; it returns the keys written, one per
\* file; and a file with the date and no kind is skipped.
C9_UploadsDatedKindFiles ==
    lastOp.op = "upload" =>
        /\ {o.body : o \in bucket} = ToUpload
        /\ \A o \in bucket :
              /\ o.key.filename = o.body
              /\ \E k \in Kinds : Contains(<<k>>, o.body) /\ o.key.prefix = "raw/" \o k \o "/"
        /\ Cardinality(bucket) = Cardinality(ToUpload)
        /\ Range(uploaded) = {o.key : o \in bucket}
        /\ Len(uploaded) = Cardinality(ToUpload)

\* upload_to_s3 has returned keys from a directory that also holds a file
\* with the date and no kind, and a file without the date
C9_Witness ==
    /\ lastOp.op = "upload"
    /\ uploaded # <<>>
    /\ \E f \in Range(scratch) : Contains(ds, f) /\ KeyPrefix(f) = ""
    /\ \E f \in Range(scratch) : ~Contains(ds, f) /\ KeyPrefix(f) # ""

\* C10: a run whose first seven tasks succeeded and whose
\* send_completion_metrics failed every attempt ends with success status.
C10_MetricsFailureNotFatal ==
    (/\ runState # "running"
     /\ taskState[MetricsTask] = "failed"
     /\ \A t \in Tasks \ {MetricsTask} : taskState[t] = "success")
        => runState = "success"

\* a task has failed its last attempt
Failed(t) == taskState[t] = "failed"

\* what holds of the attempts and of the end of a run, in every state
RunOutcome ==
    /\ \A t \in Tasks : tries[t] <= 3
    /\ \A t \in Tasks : Failed(t) => tries[t] = 3
    /\ \A i \in DOMAIN ClaimedOrder, j \in DOMAIN ClaimedOrder :
          (i < j /\ Failed(ClaimedOrder[i])) =>
              /\ tries[ClaimedOrder[j]] = 0
              /\ taskState[ClaimedOrder[j]] \in {"none", "upstream_failed"}
    /\ runState = "failed" => \E t \in Tasks : Failed(t)
    /\ (\E t \in Tasks : Failed(t)) => runState # "success"
    /\ runState = "success" =>
          /\ \A t \in Tasks : taskState[t] = "success"
          /\ metrics.logged

\* an attempt that starts is one attempt more and starts from the first step
AttemptStartsOver ==
    \A t \in Tasks :
        tries'[t] # tries[t] =>
            /\ tries'[t] = tries[t] + 1
            /\ pc'[t] = 0
            /\ taskState'[t] = "running"

\* what is left of a task instance: 10 for each attempt not yet started (an
\* attempt is a start, fewer than 8 steps and an end), the steps and the end
\* left of a running attempt, 1 for a task not yet started
TaskRank(t) ==
    CASE taskState[t] = "none"         -> 3 * 10 + 1
      [] taskState[t] = "running"      -> (3 - tries[t]) * 10 + (9 - pc[t])
      [] taskState[t] = "up_for_retry" -> (3 - tries[t]) * 10
      [] OTHER                         -> 0

RECURSIVE RankOf(_)
RankOf(ts) == IF ts = <<>> THEN 0 ELSE TaskRank(Head(ts)) + RankOf(Tail(ts))

\* what is left of the run
RunRank == RankOf(ClaimedOrder) + (IF runState = "running" THEN 1 ELSE 0)

\* a run that has not ended has something to do: a task is executing, or
\* can be started, or is below a failed task, or every task has ended
RunCanStep ==
    \/ \E t \in Tasks : taskState[t] = "running"
    \/ \E t \in Tasks :
          /\ taskState[t] \in {"none", "up_for_retry"}
          /\ \A i \in DOMAIN ClaimedOrder :
                (i > 1 /\ ClaimedOrder[i] = t) => taskState[ClaimedOrder[i - 1]] = "success"
    \/ \E i \in DOMAIN ClaimedOrder :
          /\ i > 1
          /\ taskState[ClaimedOrder[i]] = "none"
          /\ taskState[ClaimedOrder[i - 1]] \in {"failed", "upstream_failed"}
    \/ \A t \in Tasks : taskState[t] \in {"success", "failed", "upstream_failed"}

\* C11: every run of the DAG ends: a run that has not ended can take a step
\* (its next step is enabled), and every step leaves less of the run to do;
\* each task is attempted at most 3 times, an attempt starting over from the
\* task's first step; once a task has failed its third attempt no later task
\* of the chain is ever executed and the run ends failed; a run without a
\* failed task ends succeeded, after send_completion_metrics has succeeded.
C11_RunTerminates ==
    [][/\ RunOutcome'
       /\ AttemptStartsOver
       /\ RunRank' < RunRank /\ RunRank' >= 0
       /\ runState' = "running" => RunCanStep']_vars

\* transform_to_silver has failed its third attempt, no later task has been
\* attempted, and the run has ended failed
C11_Witness ==
    /\ runState = "failed"
    /\ Failed("transform_to_silver")
    /\ tries["transform_to_silver"] = 3
    /\ \A t \in {"data_quality_checks", "create_gold_analytics",
                 "send_completion_metrics"} :
          tries[t] = 0 /\ taskState[t] = "upstream_failed"

\* the step is one of the task instance of t
TaskStep(t) == pc'[t] # pc[t] \/ taskState'[t] # taskState[t] \/ tries'[t] # tries[t]

\* the step is the one in which t succeeds
Succeeds(t) == taskState[t] # "success" /\ taskState'[t] = "success"

GoldTables == {"sales_by_country", "top_products", "client_activity"}

\* C12: the steps of refresh_bronze_layer, data_quality_checks and
\* send_completion_metrics change no raw, silver or gold table; those of
\* transform_to_silver change no raw or gold table; those of
\* create_gold_analytics change no raw or silver table; a silver table
\* changes only in a step of transform_to_silver and a gold table only in a
\* step of create_gold_analytics; and when either task succeeds, each of its
\* tables holds the rows its script leaves on empty tables, nothing of what
\* the table held before.
C12_LayerOwnership ==
    [][/\ \A t \in {"refresh_bronze_layer", "data_quality_checks",
                    "send_completion_metrics"} :
             TaskStep(t) => raw' = raw /\ silver' = silver /\ gold' = gold
       /\ TaskStep("transform_to_silver") => raw' = raw /\ gold' = gold
       /\ TaskStep("create_gold_analytics") => raw' = raw /\ silver' = silver
       /\ raw' = raw
       /\ silver' # silver => TaskStep("transform_to_silver")
       /\ gold' # gold => TaskStep("create_gold_analytics")
       /\ Succeeds("transform_to_silver") =>
             LET onEmpty == SilverStatements(3, raw, EmptySilver) IN
             \A tb \in SilverTables : SameRows(silver'[tb], onEmpty[tb])
       /\ Succeeds("create_gold_analytics") =>
             LET onEmpty == GoldStatements(3, silver, EmptyGold) IN
             \A tb \in GoldTables : SameRows(gold'[tb], onEmpty[tb])]_vars

\* both scripts have been retried and have succeeded on tables an earlier
\* run had filled: Gold holds new rows
C12_Witness ==
    /\ taskState["create_gold_analytics"] = "success"
    /\ tries["create_gold_analytics"] > 1
    /\ tries["transform_to_silver"] > 1
    /\ gold0 = StaleGold
    /\ gold # gold0
    /\ gold.sales_by_country # <<>>

====
